---- MODULE Spec2Model ----
(***************************************************************************)
(* Model of src/gemini-1/chat.py: the Flask chat front-end that forwards   *)
(* messages and uploads to a generative model.                             *)
(*                                                                         *)
(* Texts are sequences of one-character strings.  Regular-expression       *)
(* substitutions are modelled as left-to-right, non-overlapping, greedy    *)
(* scans, as Python's re.sub performs them.                                *)
(***************************************************************************)
EXTENDS Integers, Sequences, FiniteSets, TLC

VARIABLES orig, text, answer, fpc, passes,   \* format_response: first input, input, result, position, calls made
          nltext, nlout, npc,                \* the newline collapse alone: input, result, position
          history, context,                  \* build_conversation_context: input, result
          model, phase,                      \* the global model handle; the process's position
          req,                               \* per request: the handler's inputs, locals and position
          uploads                            \* the file names present in static/uploads

fvars == <<orig, text, answer, fpc, passes>>
nvars == <<nltext, nlout, npc>>
cvars == <<history, context>>
svars == <<model, phase, req, uploads>>
vars == <<orig, text, answer, fpc, passes, nltext, nlout, npc, history, context,
          model, phase, req, uploads>>

----------------------------------------------------------------------------
(* Character classes of the regular expressions, over the model alphabet.  *)

NL == "\n"
SP == " "
TAB == "\t"
Upper == {"A", "B"}             \* [A-Z]
Digit == {"1", "2"}             \* \d
White == {SP, NL, TAB}          \* \s, and the characters str.strip() removes
Blank == {SP, TAB}              \* [ \t]
Stars == {"*"}                  \* \*
BQ == "bq"                      \* the backquote, which a string literal here cannot hold
Marks == {"_", "~", BQ}         \* the class of underscore, tilde and backquote
Punct == {".", "!", "?"}        \* [.!?]

\* Python's None, as distinct from every text.
None == <<"None">>

FALLBACK == <<"I", "'", "m", " ", "n", "o", "t", " ", "s", "u", "r", "e", " ",
              "h", "o", "w", " ", "t", "o", " ", "a", "n", "s", "w", "e", "r",
              " ", "t", "h", "a", "t", ".">>

\* The end of the maximal run of characters of class C that starts at i
\* (i - 1 when s[i] is not in C).
RunEnd(s, i, C) ==
  CHOOSE j \in (i - 1)..Len(s) :
    /\ \A k \in i..j : s[k] \in C
    /\ (j = Len(s) \/ s[j + 1] \notin C)

\* Python truthiness of an optional string.
Falsy(t) == t = None \/ t = <<>>

\* str.strip()
strip(s) ==
  IF \A k \in 1..Len(s) : s[k] \in White THEN <<>>
  ELSE LET a == CHOOSE k \in 1..Len(s) :
                  s[k] \notin White /\ \A m \in 1..(k - 1) : s[m] \in White
           b == CHOOSE k \in 1..Len(s) :
                  s[k] \notin White /\ \A m \in (k + 1)..Len(s) : s[m] \in White
       IN SubSeq(s, a, b)

\* re.sub(r'\*+', '', text) and the same for the marker class: every maximal
\* run of the class is replaced by nothing.
RECURSIVE RemoveRuns(_, _, _)
RemoveRuns(s, i, C) ==
  IF i > Len(s) THEN <<>>
  ELSE LET e == RunEnd(s, i, C) IN
       IF e >= i THEN RemoveRuns(s, e + 1, C)
       ELSE <<s[i]>> \o RemoveRuns(s, i + 1, C)

\* re.sub(r'\s+', ' ', text) and re.sub(r'[ \t]+', ' ', text): every maximal
\* run of the class is replaced by one space.
RECURSIVE CollapseRuns(_, _, _)
CollapseRuns(s, i, C) ==
  IF i > Len(s) THEN <<>>
  ELSE LET e == RunEnd(s, i, C) IN
       IF e >= i THEN <<SP>> \o CollapseRuns(s, e + 1, C)
       ELSE <<s[i]>> \o CollapseRuns(s, i + 1, C)

StripStars(s) == RemoveRuns(s, 1, Stars)
StripMarks(s) == RemoveRuns(s, 1, Marks)
\* The whitespace collapse left out.
CollapseWhite_skip(s) == s
CollapseWhite(s) == CollapseRuns(s, 1, White)
CollapseBlank(s) == CollapseRuns(s, 1, Blank)

\* r'\n([A-Z][A-Z\s:]+:)\n' matched at i: the position of the closing
\* newline of the longest match (greedy, with backtracking), 0 if none.
HeadingLineEnd(s, i) ==
  IF i + 4 <= Len(s) /\ s[i] = NL /\ s[i + 1] \in Upper
  THEN LET r == RunEnd(s, i + 2, Upper \cup White \cup {":"})
           E == {e \in (i + 4)..Len(s) :
                   /\ s[e] = NL /\ s[e - 1] = ":"
                   /\ e - 2 <= r}
       IN IF E = {} THEN 0 ELSE CHOOSE e \in E : \A f \in E : f <= e
  ELSE 0

\* re.sub(r'\n([A-Z][A-Z\s:]+:)\n', r'\n\n\1\n', text)
RECURSIVE SubHeadingLine(_, _)
SubHeadingLine(s, i) ==
  IF i > Len(s) THEN <<>>
  ELSE LET e == HeadingLineEnd(s, i) IN
       IF e > 0
       THEN <<NL, NL>> \o SubSeq(s, i + 1, e - 1) \o <<NL>> \o SubHeadingLine(s, e + 1)
       ELSE <<s[i]>> \o SubHeadingLine(s, i + 1)

\* The heading pattern with * for +: a single capital counts as a heading.
HeadingTextEnd_star(s, i) ==
  IF i + 2 <= Len(s) /\ s[i] \in Upper
  THEN LET r == RunEnd(s, i + 1, Upper \cup White) IN
       IF r + 2 <= Len(s) /\ s[r + 1] = ":" /\ s[r + 2] # NL
       THEN r + 2 ELSE 0
  ELSE 0

\* r'([A-Z][A-Z\s]+:)([^\n])' matched at i: the position of the character
\* after the colon, 0 if none.
HeadingTextEnd(s, i) ==
  IF i + 3 <= Len(s) /\ s[i] \in Upper
  THEN LET r == RunEnd(s, i + 1, Upper \cup White) IN
       IF r >= i + 1 /\ r + 2 <= Len(s) /\ s[r + 1] = ":" /\ s[r + 2] # NL
       THEN r + 2 ELSE 0
  ELSE 0

\* re.sub(r'([A-Z][A-Z\s]+:)([^\n])', r'\1\n\2', text)
RECURSIVE SubHeadingText(_, _)
SubHeadingText(s, i) ==
  IF i > Len(s) THEN <<>>
  ELSE LET e == HeadingTextEnd(s, i) IN
       IF e > 0
       THEN SubSeq(s, i, e - 1) \o <<NL, s[e]>> \o SubHeadingText(s, e + 1)
       ELSE <<s[i]>> \o SubHeadingText(s, i + 1)

\* r'\n(\d+\.)' matched at i: the position of the dot, 0 if none.
NumberedEnd(s, i) ==
  IF i + 2 <= Len(s) /\ s[i] = NL
  THEN LET r == RunEnd(s, i + 1, Digit) IN
       IF r >= i + 1 /\ r + 1 <= Len(s) /\ s[r + 1] = "." THEN r + 1 ELSE 0
  ELSE 0

\* re.sub(r'\n(\d+\.)', r'\n\n\1', text)
RECURSIVE SubNumbered(_, _)
SubNumbered(s, i) ==
  IF i > Len(s) THEN <<>>
  ELSE LET e == NumberedEnd(s, i) IN
       IF e > 0
       THEN <<NL, NL>> \o SubSeq(s, i + 1, e) \o SubNumbered(s, e + 1)
       ELSE <<s[i]>> \o SubNumbered(s, i + 1)

\* r'\n(-\s)' matched at i: the position of the whitespace, 0 if none.
BulletEnd(s, i) ==
  IF i + 2 <= Len(s) /\ s[i] = NL /\ s[i + 1] = "-" /\ s[i + 2] \in White
  THEN i + 2 ELSE 0

\* re.sub(r'\n(-\s)', r'\n\n\1', text)
RECURSIVE SubBullet(_, _)
SubBullet(s, i) ==
  IF i > Len(s) THEN <<>>
  ELSE LET e == BulletEnd(s, i) IN
       IF e > 0
       THEN <<NL, NL>> \o SubSeq(s, i + 1, e) \o SubBullet(s, e + 1)
       ELSE <<s[i]>> \o SubBullet(s, i + 1)

\* r'([.!?])\s*\n([A-Z])' matched at i: the position of the capital, 0 if
\* none.  \s* is greedy and \s contains the newline, so the match is the
\* whole whitespace run, which must end in a newline.
SentenceEnd(s, i) ==
  IF i + 2 <= Len(s) /\ s[i] \in Punct
  THEN LET r == RunEnd(s, i + 1, White) IN
       IF r >= i + 1 /\ s[r] = NL /\ r + 1 <= Len(s) /\ s[r + 1] \in Upper
       THEN r + 1 ELSE 0
  ELSE 0

\* re.sub(r'([.!?])\s*\n([A-Z])', r'\1\n\n\2', text)
RECURSIVE SubSentence(_, _)
SubSentence(s, i) ==
  IF i > Len(s) THEN <<>>
  ELSE LET e == SentenceEnd(s, i) IN
       IF e > 0
       THEN <<s[i], NL, NL, s[e]>> \o SubSentence(s, e + 1)
       ELSE <<s[i]>> \o SubSentence(s, i + 1)

\* The shortest run of newlines the collapse rewrites, and what it writes.
NewlineRunMin == 4
\* One blank line written instead of two.
NewlineRunOut_two == <<NL, NL>>
NewlineRunOut == <<NL, NL, NL>>

\* re.sub(r'\n{4,}', '\n\n\n', text)
RECURSIVE SubNewlines(_, _)
SubNewlines(s, i) ==
  IF i > Len(s) THEN <<>>
  ELSE LET e == RunEnd(s, i, {NL}) IN
       IF e - i + 1 >= NewlineRunMin
       THEN NewlineRunOut \o SubNewlines(s, e + 1)
       ELSE <<s[i]>> \o SubNewlines(s, i + 1)

CollapseNewlines(s) == SubNewlines(s, 1)

\* format_response up to, and excluding, the newline collapse (lines 60-72).
Structured(t) ==
  LET t1 == strip(t)
      t2 == StripStars(t1)
      t3 == StripMarks(t2)
      t4 == CollapseWhite(t3)
      t5 == SubHeadingLine(t4, 1)
      t6 == SubHeadingText(t5, 1)
      t7 == SubNumbered(t6, 1)
      t8 == SubBullet(t7, 1)
  IN SubSentence(t8, 1)

format_response(t) ==
  IF Falsy(t) THEN FALLBACK
  ELSE strip(CollapseBlank(CollapseNewlines(Structured(t))))

----------------------------------------------------------------------------
(* build_conversation_context (lines 78-87).  A turn is a JSON object, a   *)
(* function from its keys; the context is the sequence of the string       *)
(* pieces the code concatenates.                                           *)

Window == 10
HEADER == "\n\nCONVERSATION CONTEXT:\n"

\* dict.get(key, default)
Get(msg, key, default) == IF key \in DOMAIN msg THEN msg[key] ELSE default

\* conversation_history[:n], the first n turns instead of the last.
LastN_first(h, n) == SubSeq(h, 1, IF Len(h) > n THEN n ELSE Len(h))

\* conversation_history[-n:]
LastN(h, n) == SubSeq(h, IF Len(h) > n THEN Len(h) - n + 1 ELSE 1, Len(h))

RoleName(msg) == IF Get(msg, "role", "") = "user" THEN "User" ELSE "Assistant"

\* f"{role}: {msg.get('content', '')}\n"
RenderTurn(msg) == <<RoleName(msg), ": ", Get(msg, "content", ""), NL>>

RECURSIVE RenderTurns(_)
RenderTurns(h) ==
  IF h = <<>> THEN <<>> ELSE RenderTurn(Head(h)) \o RenderTurns(Tail(h))

build_conversation_context(h) ==
  IF h = <<>> THEN <<>>
  ELSE <<HEADER>> \o RenderTurns(LastN(h, Window)) \o <<NL>>

----------------------------------------------------------------------------
(* The request handlers (lines 119-251).  Fixed messages and f-string      *)
(* pieces are single strings inside a sequence; texts the code inspects    *)
(* (file names, mime types) are sequences of characters.                   *)

NumRequests == 2
Reqs == 1..NumRequests

SYSTEM_INSTRUCTION == "You are a helpful, knowledgeable, and professional AI assistant. ..."

StartsWith(s, p) == Len(s) >= Len(p) /\ SubSeq(s, 1, Len(p)) = p
EndsWith(s, p) == Len(s) >= Len(p) /\ SubSeq(s, Len(s) - Len(p) + 1, Len(s)) = p

ImagePrefix == <<"i", "m", "a", "g", "e", "/">>
TextPrefix == <<"t", "e", "x", "t", "/">>
TextExtensions == {<<".", "t", "x", "t">>, <<".", "p", "y">>, <<".", "j", "s">>,
                   <<".", "h", "t", "m", "l">>, <<".", "c", "s", "s">>,
                   <<".", "j", "s", "o", "n">>, <<".", "x", "m", "l">>,
                   <<".", "c", "s", "v">>}

\* The dispatch without the file-name fallback.
FileBranch_mimeOnly(mimetype, filename) ==
  IF StartsWith(mimetype, ImagePrefix) THEN "image"
  ELSE IF StartsWith(mimetype, TextPrefix) THEN "text"
  ELSE "unsupported"

\* The branch of lines 179-184.
FileBranch(mimetype, filename) ==
  IF StartsWith(mimetype, ImagePrefix) THEN "image"
  ELSE IF StartsWith(mimetype, TextPrefix)
          \/ \E x \in TextExtensions : EndsWith(filename, x) THEN "text"
  ELSE "unsupported"

\* JSON values: lists, numbers and strings.
JList(items) == [type |-> "list", items |-> items, num |-> 0]
JInt(n) == [type |-> "int", items |-> <<>>, num |-> n]
JStr(chars) == [type |-> "str", items |-> chars, num |-> 0]
Truthy(v) == IF v.type = "int" THEN v.num # 0 ELSE v.items # <<>>

\* The conversation_history form fields the model draws from, and what
\* json.loads makes of them.
FieldEmptyList == <<"[", "]">>
FieldOneTurn == <<"[", "{", "}", "]">>
FieldNumber == <<"5">>
FieldMalformed == <<"{", "b", "a", "d">>
OneTurn == <<[role |-> "user", content |-> "a"]>>
Parseable(raw) == raw \in {FieldEmptyList, FieldOneTurn, FieldNumber}
json_loads(raw) ==
  IF raw = FieldEmptyList THEN JList(<<>>)
  ELSE IF raw = FieldOneTurn THEN JList(OneTurn)
  ELSE JInt(5)

\* The raw field kept when parsing raises.
ParseHistory_keepRaw(raw) == IF Parseable(raw) THEN json_loads(raw) ELSE JStr(raw)

\* Lines 157-161: the parsed history, the empty list when parsing raises.
ParseHistory(raw) == IF Parseable(raw) THEN json_loads(raw) ELSE JList(<<>>)

\* build_conversation_context applied to a JSON value: the context, or the
\* exception that slicing or msg.get raises on a value that is no list.
ContextRaises(v) == Truthy(v) /\ v.type # "list"
ContextOf(v) == IF Truthy(v) THEN build_conversation_context(v.items) ELSE <<>>

\* Request bodies of a JSON POST: what request.get_json() returns or raises.
EmptyObj == [k \in {} |-> <<>>]
BodyMalformed == [kind |-> "malformed", obj |-> EmptyObj]
BodyNull == [kind |-> "null", obj |-> EmptyObj]
BodyObject(o) == [kind |-> "object", obj |-> o]
Hi == <<"h", "i">>

\* The check of the body alone: not data.
MessageMissing_bodyOnly(body) == body.kind = "null" \/ DOMAIN body.obj = {}

\* Line 128: not data or not data.get('message')
MessageMissing(body) ==
  \/ body.kind = "null"
  \/ DOMAIN body.obj = {}
  \/ Get(body.obj, "message", <<>>) = <<>>

\* secrets.token_hex: every string of TokenLen hexadecimal digits.
TokenLen == 1
HexDigits == {"a", "b"}
Tokens == [1..TokenLen -> HexDigits]

\* The original file name used as it is.
TargetName_noToken(token, filename) == filename

\* Line 167: secrets.token_hex(8) + "_" + file.filename
TargetName(token, filename) == token \o <<"_">> \o filename

\* Responses: jsonify(body), status.
ErrorBody(msg) == [error |-> msg]
ChatBody(ans) == [response |-> ans]
UploadBody(ans, target, filename, mimetype) ==
  [response |-> ans, file_url |-> <<"/static/uploads/">> \o target,
   file_name |-> filename, file_type |-> mimetype]
Response(status, body) == [status |-> status, body |-> body]

\* Line 149: the handler's catch-all.
InternalError(e) == Response(500, ErrorBody(<<"An error occurred: ", e>>))

NotAvailable == <<"AI model is not available.">>
Unsupported(mimetype) ==
  <<"Sorry, I don't support files of type '">> \o mimetype
     \o <<"'. I can analyze images and text files.">>

\* What each call site returns when the model call raises e (lines 147-149,
\* 220-221, 250-251).
ImageFailure(e) == <<"Sorry, I couldn't process this image. Error: ", e>>
TextFailure(e) == <<"Sorry, I couldn't process this file. Error: ", e>>

\* What each call site makes of response.text (lines 141, 216, 244).
Answer(site, t) ==
  IF ~Falsy(t) THEN format_response(t)
  ELSE IF site = "chat" THEN <<"I'm not sure how to respond to that.">>
  ELSE IF site = "image" THEN <<"I couldn't analyze this image.">>
  ELSE <<"I couldn't analyze this file.">>

\* The prompt texts (lines 136, 201-210, 229-240).
ChatPrompt(ctx, message) ==
  <<SYSTEM_INSTRUCTION>> \o ctx \o message \o <<"\n\nAssistant:">>
ImagePrompt(ctx, message) ==
  <<SYSTEM_INSTRUCTION>> \o ctx \o <<"\n\n">>
     \o (IF message # <<>> THEN message ELSE <<"Please analyze this image ...">>)
TextPrompt(ctx, filename, message) ==
  <<SYSTEM_INSTRUCTION>> \o ctx \o <<"\n\n">>
     \o <<"I've uploaded a file called '">> \o filename \o <<"'. ...">>
     \o (IF message # <<>> THEN message ELSE <<"Please help me understand this file ...">>)

\* A request slot nobody uses.
NoRequest ==
  [pc |-> "idle", hasFile |-> FALSE, body |-> BodyNull, filename |-> <<>>,
   mimetype |-> <<>>, message |-> <<>>, histfield |-> <<>>,
   conversation_history |-> JList(<<>>), target |-> <<>>, token |-> <<>>,
   saved |-> FALSE, context |-> <<>>, prompt |-> <<>>, branch |-> "none",
   calls |-> 0, raised |-> "none", resp |-> <<>>]

JsonPost(body) == [NoRequest EXCEPT !.body = body]
Multipart(filename, mimetype, message, histfield) ==
  [NoRequest EXCEPT !.hasFile = TRUE, !.filename = filename,
                    !.mimetype = mimetype, !.message = message,
                    !.histfield = histfield]

\* The handler of request r returns response x.
Respond(q, x) == [q EXCEPT !.pc = "done", !.resp = Append(@, x)]

\* python chat.py: initialize_model() before app.run().  The handle is
\* assigned before the test call, so it stays set when only the test fails.
initialize_model(outcome) ==
  /\ phase = "boot"
  /\ model' = IF outcome = "constructor raises" THEN "None" ELSE "GenerativeModel"
  /\ phase' = "serving"
  /\ UNCHANGED <<req, uploads, fvars, nvars, cvars>>

\* A POST /chat arrives and is routed to chat().
Receive(r, q) ==
  /\ phase = "serving"
  /\ req[r].pc = "idle"
  /\ req' = [req EXCEPT ![r] = [q EXCEPT !.pc = "chat"]]
  /\ UNCHANGED <<model, phase, uploads, fvars, nvars, cvars>>

\* chat(), lines 126-145, for a request without a file, up to the model call.
chat(r) ==
  LET q == req[r]
      hist == Get(q.body.obj, "conversation_history", JList(<<>>))
      msg == Get(q.body.obj, "message", <<>>)
      ctx == ContextOf(hist)
  IN
  /\ q.pc = "chat" /\ ~q.hasFile
  /\ req' = [req EXCEPT ![r] =
       IF q.body.kind = "malformed"
       THEN Respond(q, InternalError("400 Bad Request"))
       ELSE IF MessageMissing(q.body)
       THEN Respond(q, Response(400, ErrorBody(<<"No message provided">>)))
       ELSE IF ContextRaises(hist)
       THEN Respond([q EXCEPT !.message = msg, !.conversation_history = hist],
                    InternalError("TypeError"))
       ELSE LET q1 == [q EXCEPT !.message = msg, !.conversation_history = hist,
                                !.context = ctx, !.prompt = ChatPrompt(ctx, msg)]
            IN IF model # "None"
               THEN [q1 EXCEPT !.pc = "chat_call", !.calls = @ + 1]
               ELSE Respond(q1, Response(200, ChatBody(NotAvailable)))]
  /\ UNCHANGED <<model, phase, uploads, fvars, nvars, cvars>>

\* model.generate_content returns at line 140, with response.text = t.
ChatReturn(r, t) ==
  LET q == req[r] IN
  /\ q.pc = "chat_call"
  /\ req' = [req EXCEPT ![r] = Respond(q, Response(200, ChatBody(Answer("chat", t))))]
  /\ UNCHANGED <<model, phase, uploads, fvars, nvars, cvars>>

\* The call made again after it raised.
ChatRaise_retry(r, e) ==
  LET q == req[r] IN
  /\ q.pc = "chat_call"
  /\ req' = [req EXCEPT ![r] = [q EXCEPT !.raised = e, !.calls = @ + 1]]
  /\ UNCHANGED <<model, phase, uploads, fvars, nvars, cvars>>

\* model.generate_content raises e at line 140; line 147 catches it.
ChatRaise(r, e) ==
  LET q == req[r] IN
  /\ q.pc = "chat_call"
  /\ req' = [req EXCEPT ![r] = Respond([q EXCEPT !.raised = e], InternalError(e))]
  /\ UNCHANGED <<model, phase, uploads, fvars, nvars, cvars>>

\* handle_file_upload(), lines 153-168: the form is read and the target name
\* drawn.
handle_file_upload(r, token) ==
  LET q == req[r]
      q1 == [q EXCEPT !.conversation_history = ParseHistory(q.histfield)]
  IN
  /\ q.pc = "chat" /\ q.hasFile
  /\ req' = [req EXCEPT ![r] =
       IF q.filename = <<>>
       THEN Respond(q1, Response(400, ErrorBody(<<"No file selected">>)))
       ELSE [q1 EXCEPT !.token = token, !.target = TargetName(token, q.filename),
                       !.pc = "save"]]
  /\ UNCHANGED <<model, phase, uploads, fvars, nvars, cvars>>

\* file.save(file_path), lines 170-173.
SaveFile(r, ok) ==
  LET q == req[r] IN
  /\ q.pc = "save"
  /\ IF ok
     THEN /\ uploads' = uploads \cup {q.target}
          /\ req' = [req EXCEPT ![r] = [q EXCEPT !.saved = TRUE, !.pc = "dispatch"]]
     ELSE /\ uploads' = uploads
          /\ req' = [req EXCEPT ![r] =
                Respond(q, Response(500, ErrorBody(<<"Failed to save file">>)))]
  /\ UNCHANGED <<model, phase, fvars, nvars, cvars>>

\* Lines 175-191: the context is built and the file type dispatched on.
Dispatch(r) ==
  LET q == req[r]
      b == FileBranch(q.mimetype, q.filename)
      q1 == [q EXCEPT !.context = ContextOf(q.conversation_history), !.branch = b]
  IN
  /\ q.pc = "dispatch"
  /\ req' = [req EXCEPT ![r] =
       IF ContextRaises(q.conversation_history)
       THEN Respond(q, InternalError("TypeError"))
       ELSE IF b = "unsupported"
       THEN Respond(q1, Response(200,
               UploadBody(Unsupported(q.mimetype), q.target, q.filename, q.mimetype)))
       ELSE [q1 EXCEPT !.pc = b]]
  /\ UNCHANGED <<model, phase, uploads, fvars, nvars, cvars>>

\* process_image_file(), lines 195-218, up to the model call.  The file
\* was saved by this request, and reading it back is taken to succeed.
process_image_file(r) ==
  LET q == req[r]
      q1 == [q EXCEPT !.prompt = ImagePrompt(q.context, q.message)]
  IN
  /\ q.pc = "image"
  /\ req' = [req EXCEPT ![r] =
       IF model # "None"
       THEN [q1 EXCEPT !.pc = "image_call", !.calls = @ + 1]
       ELSE Respond(q1, Response(200,
               UploadBody(NotAvailable, q.target, q.filename, q.mimetype)))]
  /\ UNCHANGED <<model, phase, uploads, fvars, nvars, cvars>>

\* process_text_file(), lines 225-251, up to the model call; the saved bytes
\* decode as UTF-8 or do not.
process_text_file(r, decodes) ==
  LET q == req[r]
      q1 == [q EXCEPT !.prompt = TextPrompt(q.context, q.filename, q.message)]
  IN
  /\ q.pc = "text"
  /\ req' = [req EXCEPT ![r] =
       IF ~decodes
       THEN Respond(q, Response(200, UploadBody(
               <<"Sorry, I couldn't read this file. It might be in a format I don't support.">>,
               q.target, q.filename, q.mimetype)))
       ELSE IF model # "None"
       THEN [q1 EXCEPT !.pc = "text_call", !.calls = @ + 1]
       ELSE Respond(q1, Response(200,
               UploadBody(NotAvailable, q.target, q.filename, q.mimetype)))]
  /\ UNCHANGED <<model, phase, uploads, fvars, nvars, cvars>>

\* model.generate_content returns inside process_image_file or
\* process_text_file, with response.text = t.
FileReturn(r, t) ==
  LET q == req[r] IN
  /\ q.pc \in {"image_call", "text_call"}
  /\ req' = [req EXCEPT ![r] = Respond(q, Response(200,
        UploadBody(Answer(q.branch, t), q.target, q.filename, q.mimetype)))]
  /\ UNCHANGED <<model, phase, uploads, fvars, nvars, cvars>>

\* model.generate_content raises e inside process_image_file or
\* process_text_file; lines 220 and 250 catch it.
FileRaise(r, e) ==
  LET q == req[r]
      ans == IF q.branch = "image" THEN ImageFailure(e) ELSE TextFailure(e)
  IN
  /\ q.pc \in {"image_call", "text_call"}
  /\ req' = [req EXCEPT ![r] = Respond([q EXCEPT !.raised = e], Response(200,
        UploadBody(ans, q.target, q.filename, q.mimetype)))]
  /\ UNCHANGED <<model, phase, uploads, fvars, nvars, cvars>>

\* The response has been sent; the request's state is dropped.
Close(r) ==
  /\ req[r].pc = "done"
  /\ req' = [req EXCEPT ![r] = NoRequest]
  /\ UNCHANGED <<model, phase, uploads, fvars, nvars, cvars>>

\* The parts of the state a specification does not use.
FmtIdle ==
  /\ orig = None /\ text = None /\ answer = None /\ fpc = "call" /\ passes = 0
NlIdle == nltext = <<>> /\ nlout = <<>> /\ npc = "call"
CtxIdle == history = <<>> /\ context = <<>>

----------------------------------------------------------------------------
(* Requests served one at a time, over every kind of request.              *)

SrvIdle ==
  /\ model = "None" /\ phase = "boot"
  /\ req = [r \in Reqs |-> NoRequest]
  /\ uploads = {}

FCsv == <<"f", ".", "c", "s", "v">>
FPdf == <<"f", ".", "p", "d", "f">>
ImagePng == <<"i", "m", "a", "g", "e", "/", "p", "n", "g">>
TextPlain == <<"t", "e", "x", "t", "/", "p", "l", "a", "i", "n">>
AppPdf == <<"a", "p", "p", "l", "i", "c", "a", "t", "i", "o", "n", "/", "p", "d", "f">>
AppOctet == <<"a", "p", "p", "l", "i", "c", "a", "t", "i", "o", "n", "/",
              "o", "c", "t", "e", "t", "-", "s", "t", "r", "e", "a", "m">>

Bodies ==
  {BodyMalformed, BodyNull, BodyObject(EmptyObj),
   BodyObject([message |-> <<>>]),
   BodyObject([conversation_history |-> JList(OneTurn)]),
   BodyObject([message |-> Hi]),
   BodyObject([message |-> Hi, conversation_history |-> JList(OneTurn)]),
   BodyObject([message |-> Hi, conversation_history |-> JInt(5)])}
Filenames == {<<>>, FCsv, FPdf}
Mimetypes == {ImagePng, TextPlain, AppPdf, AppOctet}
Messages == {<<>>, Hi}
HistFields == {FieldEmptyList, FieldOneTurn, FieldNumber, FieldMalformed}
Requests ==
  {JsonPost(b) : b \in Bodies} \cup
  {Multipart(f, m, msg, h) : f \in Filenames, m \in Mimetypes,
                             msg \in Messages, h \in HistFields}
ModelTexts == {<<>>, Hi, <<"*">>}
ModelErrors == {"503 Service Unavailable"}
BootOutcomes == {"constructor raises", "test call raises", "ok"}
\* The tokens of one repeated digit: enough where the token decides nothing.
UniformTokens == {[i \in 1..TokenLen |-> d] : d \in HexDigits}

Init == SrvIdle /\ FmtIdle /\ NlIdle /\ CtxIdle

\* Requests taken one at a time: the handlers share nothing but the model
\* handle, which they only read, and the uploads directory, whose
\* interleavings SpecConc covers.
ReceiveAlone(r, q) ==
  /\ \A o \in Reqs : req[o].pc = "idle"
  /\ Receive(r, q)

Next ==
  \/ \E o \in BootOutcomes : initialize_model(o)
  \/ \E r \in Reqs, q \in Requests : ReceiveAlone(r, q)
  \/ \E r \in Reqs : chat(r)
  \/ \E r \in Reqs, t \in ModelTexts : ChatReturn(r, t)
  \/ \E r \in Reqs, e \in ModelErrors : ChatRaise(r, e)
  \/ \E r \in Reqs, k \in UniformTokens : handle_file_upload(r, k)
  \/ \E r \in Reqs, ok \in BOOLEAN : SaveFile(r, ok)
  \/ \E r \in Reqs : Dispatch(r)
  \/ \E r \in Reqs : process_image_file(r)
  \/ \E r \in Reqs, d \in BOOLEAN : process_text_file(r, d)
  \/ \E r \in Reqs, t \in ModelTexts : FileReturn(r, t)
  \/ \E r \in Reqs, e \in ModelErrors : FileRaise(r, e)
  \/ \E r \in Reqs : Close(r)
Spec == Init /\ [][Next]_vars

----------------------------------------------------------------------------
(* Uploads handled concurrently (the threaded server), over uploads whose  *)
(* type is not supported.                                                  *)

FName == <<"f">>
AFName == <<"a", "_", "f">>
ConcUploads == {Multipart(f, AppPdf, <<>>, FieldEmptyList) : f \in {FName, AFName}}

NextConc ==
  \/ \E o \in BootOutcomes : initialize_model(o)
  \/ \E r \in Reqs, q \in ConcUploads : Receive(r, q)
  \/ \E r \in Reqs, k \in Tokens : handle_file_upload(r, k)
  \/ \E r \in Reqs, ok \in BOOLEAN : SaveFile(r, ok)
  \/ \E r \in Reqs : Dispatch(r)
SpecConc == Init /\ [][NextConc]_vars

----------------------------------------------------------------------------
(* format_response applied to every short text, and again to its result.   *)

MaxLen == 5
Alphabet == {"A", ":", SP, NL, "*", "1", "."}
Texts(A, n) == UNION {[1..k -> A] : k \in 0..n}

InitFmt ==
  /\ orig \in Texts(Alphabet, MaxLen) \cup {None}
  /\ text = orig
  /\ answer = None
  /\ fpc = "call"
  /\ passes = 0
  /\ NlIdle /\ CtxIdle /\ SrvIdle

\* The caller receives format_response(text).
Format ==
  /\ fpc = "call"
  /\ answer' = format_response(text)
  /\ fpc' = "done"
  /\ passes' = passes + 1
  /\ UNCHANGED <<orig, text, nvars, cvars, svars>>

\* The result is handed to format_response again, once.
Refeed ==
  /\ fpc = "done"
  /\ passes < 2
  /\ text' = answer
  /\ fpc' = "call"
  /\ UNCHANGED <<orig, answer, passes, nvars, cvars, svars>>

NextFmt == Format \/ Refeed
SpecFmt == InitFmt /\ [][NextFmt]_vars

----------------------------------------------------------------------------
(* The newline collapse (line 73) applied to every short text.             *)

MaxNlLen == 7
NlAlphabet == {NL, "a"}

InitNl ==
  /\ nltext \in Texts(NlAlphabet, MaxNlLen)
  /\ nlout = <<>>
  /\ npc = "call"
  /\ FmtIdle /\ CtxIdle /\ SrvIdle

ApplyCollapse ==
  /\ npc = "call"
  /\ nlout' = CollapseNewlines(nltext)
  /\ npc' = "done"
  /\ UNCHANGED <<nltext, fvars, cvars, svars>>

NextNl == ApplyCollapse
SpecNl == InitNl /\ [][NextNl]_vars

----------------------------------------------------------------------------
(* Properties of format_response.                                          *)

HasRun(s, c, n) ==
  \E i \in 1..(Len(s) - n + 1) : \A k \in i..(i + n - 1) : s[k] = c

\* Text with no markdown marker and normalized whitespace: single spaces
\* only, none leading or trailing.
Clean(x) ==
  /\ x # None
  /\ \A i \in 1..Len(x) : x[i] \notin Stars \cup Marks \cup {NL, TAB}
  /\ \A i \in 1..(Len(x) - 1) : ~(x[i] = SP /\ x[i + 1] = SP)
  /\ Len(x) > 0 => (x[1] # SP /\ x[Len(x)] # SP)

\* The colon at i ends an all-caps heading: a capital, then one or more
\* capitals or spaces, then the colon.
EndsHeading(x, i) ==
  /\ x[i] = ":"
  /\ \E j \in 1..(i - 2) :
       /\ x[j] \in Upper
       /\ \A k \in (j + 1)..(i - 1) : x[k] \in Upper \cup {SP}

\* Every heading colon is followed by a space or ends the text.
HeadingsSpaced(x) ==
  \A i \in 1..Len(x) : EndsHeading(x, i) => (i = Len(x) \/ x[i + 1] = SP)

\* C2 (as claimed): for every input, absent, empty or any string,
\* format_response returns a non-empty string.
C2_NeverEmpty == fpc = "done" => answer # <<>>

\* C3 (as claimed): on clean text (no markers, normalized whitespace),
\* formatting the result of format_response again gives the same result.
C3_IdempotentOnClean ==
  (fpc = "done" /\ passes = 2 /\ Clean(orig)) => answer = text

\* C3 (amended): on clean text in which every all-caps heading colon is
\* followed by a space or ends the text, formatting the result of
\* format_response again gives the same result.
C3_IdempotentSpacedHeadings ==
  (fpc = "done" /\ passes = 2 /\ Clean(orig) /\ HeadingsSpaced(orig))
     => answer = text

\* A clean text with a spaced heading has been formatted twice, and the
\* heading rule put a newline into the result.
C3_Witness ==
  /\ fpc = "done" /\ passes = 2 /\ Clean(orig) /\ HeadingsSpaced(orig)
  /\ \E i \in 1..(Len(orig) - 1) : EndsHeading(orig, i)
  /\ \E i \in 1..Len(answer) : answer[i] = NL

\* C10: in the result of format_response every newline follows a heading
\* colon or another newline, no three newlines are consecutive, and the
\* newline collapse leaves the text it is given unchanged.
C10_NewlinesOnlyFromRules ==
  (fpc = "done" /\ ~Falsy(text)) =>
     /\ \A i \in 1..Len(answer) :
          answer[i] = NL => (i > 1 /\ answer[i - 1] \in {":", NL})
     /\ ~HasRun(answer, NL, 3)
     /\ CollapseNewlines(Structured(text)) = Structured(text)

\* A text holding a raw newline has been formatted: the raw newline is gone
\* and the heading rule has put a newline after a heading colon.
C10_Witness ==
  /\ fpc = "done" /\ passes = 1 /\ ~Falsy(text)
  /\ \E i \in 1..Len(text) : text[i] = NL
  /\ \E i \in 2..Len(answer) : answer[i] = NL /\ answer[i - 1] = ":"

----------------------------------------------------------------------------
(* Properties of the newline collapse.                                     *)

NonNl(s) == SelectSeq(s, LAMBDA c : c # NL)

\* The position of the k-th character of s that is not a newline; 0 for
\* k = 0 and Len(s) + 1 past the last.
Pos(s, k) ==
  IF k = 0 THEN 0
  ELSE IF k > Len(NonNl(s)) THEN Len(s) + 1
  ELSE CHOOSE i \in 1..Len(s) :
         s[i] # NL /\ Cardinality({j \in 1..i : s[j] # NL}) = k

\* The number of newlines between the k-th and the next such character.
Gap(s, k) == Pos(s, k + 1) - Pos(s, k) - 1

\* Every run of 4 or more newlines of s has become n newlines in t, and
\* nothing else has changed.
LongRunsBecome(s, t, n) ==
  /\ NonNl(t) = NonNl(s)
  /\ \A k \in 0..Len(NonNl(s)) :
       Gap(t, k) = IF Gap(s, k) >= 4 THEN n ELSE Gap(s, k)

\* C9 (as claimed): the newline collapse replaces every run of 4 or more
\* newlines with exactly 2 newlines.
C9_LongRunsBecomeTwo == npc = "done" => LongRunsBecome(nltext, nlout, 2)

\* C9 (amended): the newline collapse replaces every run of 4 or more
\* newlines with exactly 3 newlines (two blank lines), and leaves shorter
\* runs and all other characters unchanged.
C9_LongRunsBecomeThree == npc = "done" => LongRunsBecome(nltext, nlout, 3)

\* The collapse has been applied to a text with a run of 5 newlines between
\* other characters.
C9_Witness ==
  /\ npc = "done"
  /\ HasRun(nltext, NL, 5)
  /\ \E i \in 1..Len(nltext) : nltext[i] # NL
  /\ nlout # nltext

----------------------------------------------------------------------------
(* The context builder applied to a history that grows by one turn per     *)
(* request, as the client resends it.                                      *)

MaxHist == 11
Turns == {[role |-> "user", content |-> "a"],
          [role |-> "assistant", content |-> "b"],
          [role |-> "system"]}

InitCtx == history = <<>> /\ context = <<>> /\ FmtIdle /\ NlIdle /\ SrvIdle

\* A request carries the history so far plus one turn; the handler builds
\* the context block from it.
BuildContext(t) ==
  /\ Len(history) < MaxHist
  /\ history' = Append(history, t)
  /\ context' = build_conversation_context(history')
  /\ UNCHANGED <<fvars, nvars, svars>>

NextCtx == \E t \in Turns : BuildContext(t)
SpecCtx == InitCtx /\ [][NextCtx]_vars

Min(a, b) == IF a < b THEN a ELSE b

\* The number of turns rendered in a context block.
Rendered(c) == IF c = <<>> THEN 0 ELSE (Len(c) - 2) \div 4

\* C1: the context block holds exactly the last min(length, 10) turns of
\* the history, in their order, each as role, ": ", content, newline,
\* between the header and the closing newline; never more than 10 turns.
C1_LastTenTurns ==
  history # <<>> =>
    LET n == Len(history)
        k == Min(n, 10)
    IN /\ Len(context) = 2 + 4 * k
       /\ context[1] = HEADER
       /\ context[Len(context)] = NL
       /\ Rendered(context) <= 10
       /\ \A i \in 1..k :
            LET msg == history[n - k + i]
                at == 4 * (i - 1) + 1
            IN /\ context[at + 1] = (IF "role" \in DOMAIN msg /\ msg.role = "user"
                                     THEN "User" ELSE "Assistant")
               /\ context[at + 2] = ": "
               /\ context[at + 3] = (IF "content" \in DOMAIN msg THEN msg.content ELSE "")
               /\ context[at + 4] = NL

\* A history of more than 10 turns whose first turn differs from every
\* later one has been rendered.
C1_Witness ==
  /\ Len(history) > 10
  /\ \A i \in 2..Len(history) : history[i] # history[1]
  /\ Rendered(context) = 10

----------------------------------------------------------------------------
(* Properties of the request handlers.                                     *)

Range(f) == {f[i] : i \in DOMAIN f}
InFlight(q) == q.pc # "idle"

\* C4: whenever the dispatch of a saved upload chooses a branch, it is
\* image for a mime type starting with image/, else text for a mime type
\* starting with text/ or a file name with a text extension (f.csv sent
\* as application/octet-stream included), else unsupported; an unsupported
\* upload is answered at once with the message naming the mime type, and
\* the model is never invoked for it.
C4_FileTypeDispatch ==
  \A r \in Reqs :
    LET q == req[r]
        m == q.mimetype
        isImage == Len(m) >= 6 /\ \A i \in 1..6 : m[i] = ImagePrefix[i]
        isText == Len(m) >= 5 /\ \A i \in 1..5 : m[i] = TextPrefix[i]
        textName == \E x \in TextExtensions :
                      /\ Len(q.filename) >= Len(x)
                      /\ \A i \in 1..Len(x) :
                           q.filename[Len(q.filename) - Len(x) + i] = x[i]
    IN /\ q.pc \in {"image", "image_call"} => q.branch = "image"
       /\ q.pc \in {"text", "text_call"} => q.branch = "text"
       /\ q.branch # "none" =>
            /\ q.saved
            /\ q.branch = "image" <=> isImage
            /\ q.branch = "text" <=> (~isImage /\ (isText \/ textName))
            /\ (m = AppOctet /\ q.filename = FCsv) => q.branch = "text"
            /\ (m = AppPdf /\ q.filename = FPdf) => q.branch = "unsupported"
       /\ q.branch = "unsupported" =>
            /\ q.calls = 0
            /\ q.pc = "done"
            /\ Len(q.resp) = 1
            /\ q.resp[1].status = 200
            /\ q.resp[1].body.response =
                 <<"Sorry, I don't support files of type '">> \o m
                    \o <<"'. I can analyze images and text files.">>

\* A saved .csv upload sent as application/octet-stream went to text-file
\* processing and the model was invoked for it.
C4_Witness ==
  \E r \in Reqs :
    /\ req[r].mimetype = AppOctet /\ req[r].filename = FCsv
    /\ req[r].pc = "text_call"

\* The parsed body of a JSON POST is empty, lacks message, or has an
\* empty message.
NoMessage(q) ==
  /\ ~q.hasFile
  /\ \/ q.body.kind = "null"
     \/ /\ q.body.kind = "object"
        /\ ("message" \notin DOMAIN q.body.obj \/ q.body.obj.message = <<>>)

\* C5: a JSON POST without a file whose parsed body is empty, lacks the
\* message field or has an empty message never invokes the model, and ends
\* with one response of status 400 carrying an error field.
C5_MissingMessageIs400 ==
  \A r \in Reqs :
    LET q == req[r] IN
    (InFlight(q) /\ NoMessage(q)) =>
      /\ q.calls = 0
      /\ q.pc \in {"chat", "done"}
      /\ q.pc = "done" =>
           /\ Len(q.resp) = 1
           /\ q.resp[1].status = 400
           /\ "error" \in DOMAIN q.resp[1].body

\* A request whose body has an empty message has been answered.
C5_Witness ==
  \E r \in Reqs :
    /\ ~req[r].hasFile
    /\ req[r].body = BodyObject([message |-> <<>>])
    /\ req[r].pc = "done"

\* Response x reports failure e: an error payload or a message holding the
\* error text.
Reports(x, e) ==
  \/ x.status = 500 /\ "error" \in DOMAIN x.body /\ e \in Range(x.body.error)
  \/ "response" \in DOMAIN x.body /\ e \in Range(x.body.response)

\* C6: every request invokes the model at most once and gets at most one
\* response, exactly one when it has ended; when the invocation raised, it
\* was the only one, and the request has ended with one response that
\* reports the failure.
C6_SingleAttempt ==
  \A r \in Reqs :
    LET q == req[r] IN
    /\ q.calls <= 1
    /\ Len(q.resp) <= 1
    /\ q.pc = "done" <=> Len(q.resp) = 1
    /\ q.raised # "none" =>
         /\ q.calls = 1
         /\ q.pc = "done"
         /\ Reports(q.resp[1], q.raised)

\* The model call of a text chat raised and the request has ended.
C6_Witness ==
  \E r \in Reqs :
    req[r].raised # "none" /\ ~req[r].hasFile /\ req[r].pc = "done"

HasTarget(q) == q.target # <<>>

\* C7 (as claimed): no two requests write to the same path in the uploads
\* directory, uploads of the same original file name included.
C7_TargetsDistinct ==
  \A r1, r2 \in Reqs :
    (r1 # r2 /\ HasTarget(req[r1]) /\ HasTarget(req[r2]))
       => req[r1].target # req[r2].target

\* C7 (amended): two requests write to the same path only when they drew
\* the same random token and carry the same original file name; requests
\* whose tokens or file names differ write to distinct paths.
C7_DistinctUnlessSameToken ==
  \A r1, r2 \in Reqs :
    (r1 # r2 /\ HasTarget(req[r1]) /\ HasTarget(req[r2])
       /\ (req[r1].token # req[r2].token \/ req[r1].filename # req[r2].filename))
       => req[r1].target # req[r2].target

\* Two concurrent uploads of the same file name, with different tokens, have
\* both been saved.
C7_Witness ==
  \E r1, r2 \in Reqs :
    /\ r1 # r2
    /\ req[r1].saved /\ req[r2].saved
    /\ req[r1].filename = req[r2].filename
    /\ req[r1].token # req[r2].token
    /\ {req[r1].target, req[r2].target} \subseteq uploads

\* C8: an upload whose conversation_history field does not parse as JSON
\* goes on with the empty history; once its file is saved it reaches the
\* dispatch with the empty context and ends with the upload response.
C8_MalformedHistoryIsEmpty ==
  \A r \in Reqs :
    LET q == req[r] IN
    (q.hasFile /\ q.histfield = FieldMalformed /\ q.pc \notin {"idle", "chat"}) =>
      /\ q.conversation_history = JList(<<>>)
      /\ q.context = <<>>
      /\ (q.saved /\ q.pc = "done") =>
           /\ q.branch # "none"
           /\ Len(q.resp) = 1
           /\ q.resp[1].status = 200
           /\ DOMAIN q.resp[1].body = {"response", "file_url", "file_name", "file_type"}

\* An upload with a malformed history field has been answered after its
\* file was saved.
C8_Witness ==
  \E r \in Reqs :
    /\ req[r].hasFile /\ req[r].histfield = FieldMalformed
    /\ req[r].saved /\ req[r].pc = "done"

====
